---------------------------- MODULE Spec2Model ----------------------------
(***************************************************************************)
(* Model of the Twitch integration's update coordinator                    *)
(* (custom_components/twitch/coordinator.py) and of the entity projection  *)
(* layer (binary_sensor.py, sensor.py).                                    *)
(*                                                                         *)
(* One refresh cycle is _async_update_data -> _async_get_data -> one       *)
(* _async_get_channel_data task per resolved channel, run concurrently by  *)
(* asyncio.gather.  Every await of the remote client is one step, so the   *)
(* lookups of different channels interleave freely.  The remote client is  *)
(* a black box: each lookup returns one of a small set of values or raises *)
(* one of the client's exception classes.                                  *)
(*                                                                         *)
(* Python values that may be None are boxed as records with a "type"       *)
(* field, so that None, False, an int and a str are pairwise distinct.     *)
(***************************************************************************)
EXTENDS Integers, Sequences, FiniteSets, TLC

VARIABLES
    options,              \* self._options[CONF_CHANNELS]: the configured channel ids
    user,                 \* self.user: the cached authenticated user, or None
    data,                 \* coordinator.data: the published Snapshot, or None
    last_update_success,  \* coordinator.last_update_success (read by super().available)
    outcome,              \* how the last cycle ended; "none" while one runs
    pc,                   \* position of the cycle in _async_get_data
    channel_users,        \* the list built by the async for of _async_get_data
    tasks,                \* the _async_get_channel_data coroutines gathered by the cycle
    gatherExc,            \* the exception asyncio.gather delivers: the first one raised
    raised,               \* exceptions raised into the cycle: by a lookup of the remote
                          \* client (a not-found of the subscription lookup aside) or
                          \* by the timeout
    userLookups,          \* number of get_user calls issued during the cycle
    calls,                \* how often the cycle issued each other lookup: the
                          \* channel-list lookup, and per coroutine its five lookups
    flow                  \* the OptionsFlowHandler's channels step: its position,
                          \* the locals of get_followed_channels, and its result

vars == <<options, user, data, last_update_success, outcome, pc, channel_users,
          tasks, gatherExc, raised, userLookups, calls, flow>>

-----------------------------------------------------------------------------
(* Bounds and input sets *)

\* Longest configured channel-id list explored.
MaxChannels == 1

\* The authenticated user's id.
UserId == "u0"

\* Ids the remote service knows: the user's own channel and one other channel.
ChannelIds == {"u0", "c1"}

-----------------------------------------------------------------------------
(* Python values *)

None == [type |-> "NoneType"]
PyBool(b) == [type |-> "bool", value |-> b]
PyInt(n) == [type |-> "int", value |-> n]
PyStr(s) == [type |-> "str", value |-> s]

\* A local variable of a coroutine whose awaited lookup has not returned yet.
Pending == [type |-> "pending"]

\* str.format(width=w, height=h) applied to a URL template.
Format(template, w, h) ==
    [type |-> "str", value |-> template.value, width |-> w, height |-> h]

NoException == "NoException"

-----------------------------------------------------------------------------
(* The remote service, seen through the client library *)

\* Exception classes the client raises from a lookup.
RemoteErrors ==
    {"TwitchAuthorizationException", "TwitchBackendException",
     "TwitchResourceNotFound", "KeyError"}

\* Class hierarchy of the exceptions named in the except clauses: every
\* Twitch* exception derives from TwitchAPIException.
IsInstance(exc, cls) ==
    \/ exc = cls
    \/ /\ cls = "TwitchAPIException"
       /\ exc \in {"TwitchAuthorizationException", "TwitchBackendException",
                   "TwitchResourceNotFound"}

\* Display names as sequences of character codes: "alpha" abbreviated to
\* "al" (97, 108) and "Bravo" to "Br" (66, 114).
DisplayName(id) == IF id = "u0" THEN <<97, 108>> ELSE <<66, 114>>

\* A TwitchUser record as returned by get_users.
TwitchUser(id) ==
    [type |-> "TwitchUser", id |-> id, display_name |-> DisplayName(id),
     profile_image_url |-> PyStr("profile_" \o id)]

\* Number of occurrences of x in the sequence s.
Count(s, x) == Cardinality({i \in DOMAIN s : s[i] = x})

\* Sequences over S of length at most n.
SeqUpTo(S, n) == UNION {[1..k -> S] : k \in 0..n}

\* What get_users(user_ids=ids) may yield: records of requested ids only, in
\* any order; a requested id the service does not know (any more) is left
\* out, and an id requested twice is answered once or once per occurrence.
RemoteUsers(ids) ==
    {s \in SeqUpTo(ChannelIds, Len(ids)) :
        \A x \in ChannelIds : Count(s, x) <= Count(ids, x)}

\* get_users_follows(to_id=id): the follower relation of channel id.
RemoteFollowers(id) ==
    {[type |-> "TwitchUserFollowResult", total |-> IF id = "u0" THEN 10 ELSE 20,
      data |-> <<>>]}

\* get_users_follows(from_id=user, to_id=id): the user does not follow its
\* own channel and follows the other channel.
RemoteFollowing(id) ==
    IF id = "u0"
    THEN {[type |-> "TwitchUserFollowResult", total |-> 0, data |-> <<>>]}
    ELSE {[type |-> "TwitchUserFollowResult", total |-> 1,
           data |-> <<[type |-> "TwitchUserFollow",
                       followed_at |-> "followed_" \o id]>>]}

\* first(get_streams(user_id=[id])): no stream, or the channel's stream; the
\* user's own stream carries no thumbnail, the other channel's does.
RemoteStreams(id) ==
    {None,
     [type |-> "Stream", game_id |-> "game_" \o id, game_name |-> "Chess",
      title |-> "Live_" \o id, viewer_count |-> 42,
      thumbnail_url |-> IF id = "u0" THEN None ELSE PyStr("thumb_" \o id)]}

\* first(get_games(game_ids=[game_id])): the game of the user's own stream
\* is unknown to the service, the game of the other channel's stream is known.
RemoteGames(game_id) ==
    IF game_id = "game_u0"
    THEN {None}
    ELSE {[type |-> "Game", id |-> game_id, name |-> "Chess",
           box_art_url |-> PyStr("box_" \o game_id)]}

\* check_user_subscription(broadcaster_id=id, user_id=user).
RemoteSubscriptions(id) ==
    {[type |-> "UserSubscription", broadcaster_id |-> id, is_gift |-> FALSE]}

-----------------------------------------------------------------------------
(* Data records (data.py) *)

TwitchChannel(id, name, image, followers, following, game, stream, subscription) ==
    [type |-> "TwitchChannel", id |-> id, display_name |-> name,
     profile_image_url |-> image, followers |-> followers,
     following |-> following, game |-> game, stream |-> stream,
     subscription |-> subscription]

TwitchCoordinatorData(channels, u) ==
    [type |-> "TwitchCoordinatorData", channels |-> channels, user |-> u]

-----------------------------------------------------------------------------
(* TwitchUpdateCoordinator (coordinator.py) *)

\* Configured channel-id lists: any list of known ids up to MaxChannels,
\* the user's own id included (the setup wizard offers it).
ConfiguredChannels == SeqUpTo(ChannelIds, MaxChannels)

\* Mutant of UserIsNone: the guard is dropped and the user is looked up anyway.
UserIsNone_Always(u) == TRUE

\* `if self.user is None` of _async_get_data and _async_get_channel_data.
UserIsNone(u) == u = None

\* get_user: first(client.get_users()) yields the user or nothing.
GetUserResults == {TwitchUser(UserId), None}

\* user_ids=[self.user.id, *self._options[CONF_CHANNELS]]
RequestedUserIds(u, opts) == <<u.id>> \o opts

\* Mutant of SubscriptionErrorSwallowed: a bare `except Exception`.
SubscriptionErrorSwallowed_Any(exc) == TRUE

\* `except TwitchResourceNotFound` around check_user_subscription.
SubscriptionErrorSwallowed(exc) == IsInstance(exc, "TwitchResourceNotFound")

\* Mutant of async_update_data: asyncio.TimeoutError is caught with the API
\* errors and turned into UpdateFailed.
async_update_data_CatchesTimeout(exc) ==
    IF IsInstance(exc, "TwitchAuthorizationException")
    THEN "ConfigEntryAuthFailed"
    ELSE IF exc = "UpdateFailed" THEN exc ELSE "UpdateFailed"

\* The except clauses of _async_update_data: the exception it raises when
\* exc leaves _async_get_data.  asyncio.TimeoutError and UpdateFailed match
\* neither clause and propagate unchanged.
async_update_data(exc) ==
    IF IsInstance(exc, "TwitchAuthorizationException")
    THEN "ConfigEntryAuthFailed"
    ELSE IF \/ IsInstance(exc, "TwitchAPIException")
            \/ IsInstance(exc, "TwitchBackendException")
            \/ IsInstance(exc, "KeyError")
         THEN "UpdateFailed"
         ELSE exc

\* A freshly created _async_get_channel_data(channel_user) coroutine.
NewTask(channel_user) ==
    [pc |-> "start", channel_user |-> channel_user, followers |-> Pending,
     following |-> Pending, stream |-> Pending, game |-> Pending,
     subscription |-> Pending, logged_not_subscribed |-> FALSE,
     completed |-> 0]

\* The return statement of _async_get_channel_data.
ChannelOf(t) ==
    TwitchChannel(t.channel_user.id, t.channel_user.display_name,
                  t.channel_user.profile_image_url,
                  IF t.followers # None THEN PyInt(t.followers.total) ELSE None,
                  IF t.following # None /\ Len(t.following.data) > 0
                  THEN t.following.data[1] ELSE None,
                  t.game, t.stream, t.subscription)

\* Mutant of GatherResults: the results are collected in the order in which
\* the coroutines completed (as asyncio.as_completed yields them).
GatherResults_AsCompleted(ts) ==
    [i \in DOMAIN ts |-> ChannelOf(CHOOSE t \in {ts[j] : j \in DOMAIN ts} : t.completed = i)]

\* The list asyncio.gather returns: one result per coroutine, in argument order.
GatherResults(ts) == [i \in DOMAIN ts |-> ChannelOf(ts[i])]

\* The return statement of _async_get_data.
SnapshotOf(ts, u) == TwitchCoordinatorData(GatherResults(ts), u)

\* The lookups one _async_get_channel_data coroutine issues.
ChannelLookups == {"followers", "following", "stream", "game", "subscription"}

\* No lookup issued yet.
NoCalls == [channel_list |-> 0, per_task |-> <<>>]

\* The options flow when no step of it is in progress.
IdleFlow ==
    [pc |-> "idle", cursor |-> None, channels |-> <<>>, pages |-> 0,
     followed |-> {}, result |-> None]

\* Coroutine i issues its lookup k.
Issued(i, k) == [calls EXCEPT !.per_task[i][k] = @ + 1]

TypeOK ==
    /\ options \in ConfiguredChannels
    /\ user \in GetUserResults
    /\ last_update_success \in BOOLEAN
    /\ outcome \in {"none", "ok", "ConfigEntryAuthFailed", "UpdateFailed", "TimeoutError"}
    /\ pc \in {"idle", "get_user", "get_users", "gather"}
    /\ gatherExc \in RemoteErrors \cup {NoException, "UpdateFailed"}
    /\ raised \subseteq RemoteErrors \cup {"TimeoutError"}
    /\ userLookups \in Nat
    /\ calls.channel_list \in Nat
    /\ Len(calls.per_task) = Len(tasks)
    /\ flow.pc \in {"idle", "follows", "form"}

Init ==
    /\ options \in ConfiguredChannels
    /\ user = None
    /\ data = None
    /\ last_update_success = TRUE
    /\ outcome = "none"
    /\ pc = "idle"
    /\ channel_users = <<>>
    /\ tasks = <<>>
    /\ gatherExc = NoException
    /\ raised = {}
    /\ userLookups = 0
    /\ calls = NoCalls
    /\ flow = IdleFlow

\* The host's scheduler calls _async_update_data (at most one cycle in flight).
StartRefresh ==
    /\ pc = "idle"
    /\ pc' = "get_user"
    /\ outcome' = "none"
    /\ raised' = {}
    /\ userLookups' = 0
    /\ calls' = NoCalls
    /\ gatherExc' = NoException
    /\ channel_users' = <<>>
    /\ tasks' = <<>>
    /\ UNCHANGED <<options, user, data, last_update_success>>
    /\ UNCHANGED flow

\* Mutant of CycleRaises: the channels assembled so far are published although
\* the cycle failed.
CycleRaises_PublishesPartial(exc) ==
    /\ outcome' = async_update_data(exc)
    /\ last_update_success' = FALSE
    /\ pc' = "idle"
    /\ data' = TwitchCoordinatorData(
                    GatherResults(SelectSeq(tasks, LAMBDA t : t.pc = "returned")), user)
    /\ UNCHANGED <<options>>

\* _async_update_data raises: exc left _async_get_data.  The host keeps the
\* published data and records the failed update.  The coroutines of the cycle
\* stop where they are: a timeout cancels them, and after an exception of the
\* gather nothing reads the results of those still running.
CycleRaises(exc) ==
    /\ outcome' = async_update_data(exc)
    /\ last_update_success' = FALSE
    /\ pc' = "idle"
    /\ UNCHANGED <<options, data>>

\* _async_update_data returns the Snapshot and the host publishes it.
CycleReturns(snapshot) ==
    /\ data' = snapshot
    /\ outcome' = "ok"
    /\ last_update_success' = TRUE
    /\ pc' = "idle"
    /\ UNCHANGED <<options>>

\* Mutant of ResolveUser: a lookup that yields no user is treated as an
\* authorization error.
ResolveUser_NoUserIsAuthError ==
    /\ pc = "get_user"
    /\ IF UserIsNone(user)
       THEN /\ userLookups' = userLookups + 1
            /\ \/ \E u \in GetUserResults :
                    /\ user' = u
                    /\ UNCHANGED <<raised, gatherExc>>
                    /\ IF u = None
                       THEN CycleRaises("TwitchAuthorizationException")
                       ELSE /\ pc' = "get_users"
                            /\ UNCHANGED <<options, data, last_update_success, outcome>>
               \/ \E e \in RemoteErrors :
                    /\ raised' = raised \cup {e}
                    /\ CycleRaises(e)
                    /\ UNCHANGED <<user, gatherExc>>
            /\ UNCHANGED <<channel_users, tasks, calls>>
       ELSE /\ pc' = "get_users"
            /\ UNCHANGED <<options, user, data, last_update_success, outcome,
                           channel_users, tasks, gatherExc, raised, userLookups, calls>>
    /\ UNCHANGED flow

\* Lines 166-170 of _async_get_data.
ResolveUser ==
    /\ pc = "get_user"
    /\ IF UserIsNone(user)
       THEN /\ userLookups' = userLookups + 1
            /\ \/ \E u \in GetUserResults :
                    /\ user' = u
                    /\ UNCHANGED <<raised, gatherExc>>
                    /\ IF u = None
                       THEN CycleRaises("UpdateFailed")
                       ELSE /\ pc' = "get_users"
                            /\ UNCHANGED <<options, data, last_update_success, outcome>>
               \/ \E e \in RemoteErrors :
                    /\ raised' = raised \cup {e}
                    /\ CycleRaises(e)
                    /\ UNCHANGED <<user, gatherExc>>
            /\ UNCHANGED <<channel_users, tasks, calls>>
       ELSE /\ pc' = "get_users"
            /\ UNCHANGED <<options, user, data, last_update_success, outcome,
                           channel_users, tasks, gatherExc, raised, userLookups, calls>>
    /\ UNCHANGED flow

\* Lines 174-185 of _async_get_data: the async for over get_users, then the
\* creation of one coroutine per channel user for asyncio.gather.
ResolveChannelUsers ==
    /\ pc = "get_users"
    /\ \/ \E ids \in RemoteUsers(RequestedUserIds(user, options)) :
            /\ channel_users' = [i \in DOMAIN ids |-> TwitchUser(ids[i])]
            /\ tasks' = [i \in DOMAIN ids |-> NewTask(TwitchUser(ids[i]))]
            /\ pc' = "gather"
            /\ calls' = [channel_list |-> calls.channel_list + 1,
                         per_task |-> [i \in DOMAIN ids |-> [k \in ChannelLookups |-> 0]]]
            /\ UNCHANGED <<options, user, data, last_update_success, outcome,
                           gatherExc, raised, userLookups>>
       \/ \E e \in RemoteErrors :
            /\ raised' = raised \cup {e}
            /\ CycleRaises(e)
            /\ calls' = [calls EXCEPT !.channel_list = @ + 1]
            /\ UNCHANGED <<user, gatherExc, userLookups, channel_users, tasks>>
    /\ UNCHANGED flow

-----------------------------------------------------------------------------
(* _async_get_channel_data, one coroutine per channel user *)

Running(i) == pc = "gather" /\ i \in DOMAIN tasks

\* The coroutine i raises exc.  asyncio.gather (return_exceptions=False)
\* delivers the first exception raised to its awaiter and drops later ones;
\* the other coroutines are not cancelled.
TaskRaises(i, exc) ==
    /\ tasks' = [tasks EXCEPT ![i] =
                    [NewTask(tasks[i].channel_user) EXCEPT !.pc = "raised"]]
    /\ gatherExc' = IF gatherExc = NoException THEN exc ELSE gatherExc

\* Mutant of LookupRaises: the exception is caught inside the coroutine and
\* the lookup is tried again, instead of ending the coroutine.
LookupRaises_Retried(i, e) ==
    /\ raised' = raised \cup {e}
    /\ UNCHANGED <<tasks, gatherExc>>

\* A lookup of coroutine i raises the client exception e.
LookupRaises(i, e) ==
    /\ raised' = raised \cup {e}
    /\ TaskRaises(i, e)

\* Lines 119-123.
TaskStart(i) ==
    /\ Running(i)
    /\ tasks[i].pc = "start"
    /\ IF UserIsNone(user)
       THEN /\ userLookups' = userLookups + 1
            /\ \/ \E u \in GetUserResults :
                    /\ user' = u
                    /\ UNCHANGED raised
                    /\ IF u = None
                       THEN TaskRaises(i, "UpdateFailed")
                       ELSE /\ tasks' = [tasks EXCEPT ![i].pc = "gather"]
                            /\ UNCHANGED gatherExc
               \/ \E e \in RemoteErrors :
                    /\ LookupRaises(i, e)
                    /\ UNCHANGED user
       ELSE /\ tasks' = [tasks EXCEPT ![i].pc = "gather"]
            /\ UNCHANGED <<user, gatherExc, raised, userLookups>>
    /\ UNCHANGED <<options, data, last_update_success, outcome, pc, channel_users, calls>>
    /\ UNCHANGED flow

\* Lines 126-128: get_users_follows(to_id=channel_user.id), inside the gather.
LookupFollowers(i) ==
    /\ Running(i)
    /\ tasks[i].pc = "gather"
    /\ tasks[i].followers = Pending
    /\ \/ \E v \in RemoteFollowers(tasks[i].channel_user.id) :
            /\ tasks' = [tasks EXCEPT ![i].followers = v]
            /\ UNCHANGED <<gatherExc, raised>>
       \/ \E e \in RemoteErrors : LookupRaises(i, e)
    /\ calls' = Issued(i, "followers")
    /\ UNCHANGED <<options, user, data, last_update_success, outcome, pc,
                   channel_users, userLookups>>
    /\ UNCHANGED flow

\* Lines 129-132: get_users_follows(from_id=self.user.id, to_id=channel_user.id).
LookupFollowing(i) ==
    /\ Running(i)
    /\ tasks[i].pc = "gather"
    /\ tasks[i].following = Pending
    /\ \/ \E v \in RemoteFollowing(tasks[i].channel_user.id) :
            /\ tasks' = [tasks EXCEPT ![i].following = v]
            /\ UNCHANGED <<gatherExc, raised>>
       \/ \E e \in RemoteErrors : LookupRaises(i, e)
    /\ calls' = Issued(i, "following")
    /\ UNCHANGED <<options, user, data, last_update_success, outcome, pc,
                   channel_users, userLookups>>
    /\ UNCHANGED flow

\* Lines 133-137: first(get_streams(user_id=[channel_user.id])).
LookupStream(i) ==
    /\ Running(i)
    /\ tasks[i].pc = "gather"
    /\ tasks[i].stream = Pending
    /\ \/ \E v \in RemoteStreams(tasks[i].channel_user.id) :
            /\ tasks' = [tasks EXCEPT ![i].stream = v]
            /\ UNCHANGED <<gatherExc, raised>>
       \/ \E e \in RemoteErrors : LookupRaises(i, e)
    /\ calls' = Issued(i, "stream")
    /\ UNCHANGED <<options, user, data, last_update_success, outcome, pc,
                   channel_users, userLookups>>
    /\ UNCHANGED flow

\* `if stream is not None` of line 140.
StreamFound(stream) == stream # None

\* Lines 125 and 139-142: the inner gather has all three results; game and
\* subscription are initialised and the next lookup is chosen.
AwaitLookups(i) ==
    /\ Running(i)
    /\ tasks[i].pc = "gather"
    /\ tasks[i].followers # Pending
    /\ tasks[i].following # Pending
    /\ tasks[i].stream # Pending
    /\ tasks' = [tasks EXCEPT ![i] =
                    [@ EXCEPT !.game = None,
                              !.subscription =
                                  IF StreamFound(tasks[i].stream) THEN Pending ELSE None,
                              !.pc = IF StreamFound(tasks[i].stream)
                                     THEN "game" ELSE "subscription"]]
    /\ UNCHANGED <<options, user, data, last_update_success, outcome, pc,
                   channel_users, gatherExc, raised, userLookups, calls>>
    /\ UNCHANGED flow

\* Mutant of LookupGame: the game lookup is not nested in the stream check;
\* once the inner gather is done it is made for the channel's game id,
\* whether or not a stream was found.
LookupGame_WithoutStream(i) ==
    /\ Running(i)
    /\ tasks[i].pc \in {"game", "subscription"}
    /\ calls.per_task[i]["game"] = 0
    /\ \E v \in RemoteGames("game_" \o tasks[i].channel_user.id) :
            tasks' = [tasks EXCEPT ![i] =
                        [@ EXCEPT !.game = v, !.subscription = None,
                                  !.pc = "subscription"]]
    /\ calls' = Issued(i, "game")
    /\ UNCHANGED <<options, user, data, last_update_success, outcome, pc,
                   channel_users, gatherExc, raised, userLookups>>
    /\ UNCHANGED flow

\* Lines 141-142: first(get_games(game_ids=[stream.game_id])).
LookupGame(i) ==
    /\ Running(i)
    /\ tasks[i].pc = "game"
    /\ \/ \E v \in RemoteGames(tasks[i].stream.game_id) :
            /\ tasks' = [tasks EXCEPT ![i] =
                            [@ EXCEPT !.game = v, !.subscription = None,
                                      !.pc = "subscription"]]
            /\ UNCHANGED <<gatherExc, raised>>
       \/ \E e \in RemoteErrors : LookupRaises(i, e)
    /\ calls' = Issued(i, "game")
    /\ UNCHANGED <<options, user, data, last_update_success, outcome, pc,
                   channel_users, userLookups>>
    /\ UNCHANGED flow

\* Number of coroutines of the gather that have returned.
Returned(ts) == Cardinality({j \in DOMAIN ts : ts[j].pc = "returned"})

\* Lines 143-162: check_user_subscription inside the try, then the return;
\* `completed` records the coroutine's place in the order of completion.
LookupSubscription(i) ==
    /\ Running(i)
    /\ tasks[i].pc = "subscription"
    /\ \/ \E v \in RemoteSubscriptions(tasks[i].channel_user.id) :
            /\ tasks' = [tasks EXCEPT ![i] =
                            [@ EXCEPT !.subscription = v, !.pc = "returned",
                                      !.completed = Returned(tasks) + 1]]
            /\ UNCHANGED <<gatherExc, raised>>
       \/ \E e \in RemoteErrors :
            /\ IF SubscriptionErrorSwallowed(e)
               THEN /\ tasks' = [tasks EXCEPT ![i] =
                                    [@ EXCEPT !.logged_not_subscribed = TRUE,
                                              !.pc = "returned",
                                              !.completed = Returned(tasks) + 1]]
                    /\ UNCHANGED gatherExc
               ELSE TaskRaises(i, e)
            /\ raised' = IF e = "TwitchResourceNotFound"
                         THEN raised ELSE raised \cup {e}
    /\ calls' = Issued(i, "subscription")
    /\ UNCHANGED <<options, user, data, last_update_success, outcome, pc,
                   channel_users, userLookups>>
    /\ UNCHANGED flow

-----------------------------------------------------------------------------
(* The end of a cycle *)

AllReturned(ts) == \A i \in DOMAIN ts : ts[i].pc = "returned"

\* Lines 180-192 and 200: every coroutine returned; _async_get_data builds
\* the Snapshot and _async_update_data returns it.
GatherReturns ==
    /\ pc = "gather"
    /\ gatherExc = NoException
    /\ AllReturned(tasks)
    /\ CycleReturns(SnapshotOf(tasks, user))
    /\ UNCHANGED <<user, gatherExc, raised, userLookups, calls, channel_users, tasks>>
    /\ UNCHANGED flow

\* Line 180: the gather raises the first exception of its coroutines.
GatherRaises ==
    /\ pc = "gather"
    /\ gatherExc # NoException
    /\ CycleRaises(gatherExc)
    /\ UNCHANGED <<user, gatherExc, raised, userLookups, calls, channel_users, tasks>>
    /\ UNCHANGED flow

\* Line 199: async_timeout.timeout(30) expires while the cycle awaits.
Timeout ==
    /\ \/ pc = "get_user" /\ UserIsNone(user)
       \/ pc = "get_users"
       \/ pc = "gather" /\ tasks # <<>>
    /\ raised' = raised \cup {"TimeoutError"}
    /\ CycleRaises("TimeoutError")
    /\ UNCHANGED <<user, gatherExc, userLookups, calls, channel_users, tasks>>
    /\ UNCHANGED flow

-----------------------------------------------------------------------------
(* Entity projection (coordinator.py helpers, binary_sensor.py, sensor.py) *)

\* Smallest element of a non-empty set of integers.
Min(S) == CHOOSE x \in S : \A y \in S : x <= y

\* get_twitch_channel: the first channel of the Snapshot with that id, or None.
\* (data.channels is always a list here, so only the length test of the guard
\* can hold.)
get_twitch_channel(d, channel_id) ==
    IF Len(d.channels) < 1
    THEN None
    ELSE LET found == {i \in DOMAIN d.channels : d.channels[i].id = channel_id}
         IN  IF found = {} THEN None ELSE d.channels[Min(found)]

get_twitch_channel_available(d, channel_id) ==
    get_twitch_channel(d, channel_id) # None

get_twitch_channel_entity_picture(d, channel_id) ==
    LET channel == get_twitch_channel(d, channel_id)
    IN  IF channel = None
        THEN None
        ELSE IF channel.stream # None /\ channel.stream.thumbnail_url # None
             THEN Format(channel.stream.thumbnail_url, 1280, 720)
             ELSE channel.profile_image_url

\* sensor.py: get_twitch_game_entity_picture.
get_twitch_game_entity_picture(d, channel_id) ==
    LET channel == get_twitch_channel(d, channel_id)
    IN  IF channel = None \/ channel.game = None
        THEN None
        ELSE Format(channel.game.box_art_url, 300, 400)

\* binary_sensor.py: _twitch_live_value.
twitch_live_value(d, channel_id) ==
    LET channel == get_twitch_channel(d, channel_id)
    IN  IF channel = None
        THEN None
        ELSE IF channel.stream = None THEN PyBool(FALSE) ELSE PyBool(TRUE)

\* Calling a function stored in a description field, by the function's name.
CallFn(fn, d, channel_id) ==
    CASE fn = "lambda data, k: True" -> TRUE
      [] fn = "lambda data, k: None" -> None
      [] fn = "get_twitch_channel_available" ->
            get_twitch_channel_available(d, channel_id)
      [] fn = "get_twitch_channel_entity_picture" ->
            get_twitch_channel_entity_picture(d, channel_id)
      [] fn = "get_twitch_game_entity_picture" ->
            get_twitch_game_entity_picture(d, channel_id)
      [] fn = "_twitch_live_value" -> twitch_live_value(d, channel_id)

\* The dataclass fields with defaults of TwitchBaseBinarySensorEntityDescription
\* and TwitchBaseSensorEntityDescription.
BaseDescriptionDefaults ==
    [available_fn |-> "lambda data, k: True",
     attributes_fn |-> "lambda data, k: None",
     entity_picture_fn |-> "lambda data, k: None"]

\* The __init__ a dataclass generates: every field becomes an instance
\* attribute, set from the keyword argument or else from the field's default.
DataclassInit(defaults, kwargs) ==
    [f \in DOMAIN defaults \cup DOMAIN kwargs |->
        IF f \in DOMAIN kwargs THEN kwargs[f] ELSE defaults[f]]

\* Attribute lookup on an instance: the instance attribute, else the class attribute.
GetAttr(instance, class_attrs, name) ==
    IF name \in DOMAIN instance THEN instance[name] ELSE class_attrs[name]

\* Class body of TwitchBinarySensorEntityDescription: two assignments without
\* annotation, hence class attributes and not dataclass fields; the fields
\* keep the defaults inherited from the base description.
BinarySensorClassAttrs ==
    [available_fn |-> "get_twitch_channel_available",
     entity_picture_fn |-> "get_twitch_channel_entity_picture"]

\* The description async_setup_entry of binary_sensor.py builds per channel.
BinarySensorDescription(channel_id) ==
    DataclassInit(BaseDescriptionDefaults,
                  [key |-> channel_id \o "_live", value_fn |-> "_twitch_live_value"])

\* TwitchBinarySensorEntity.available
BinarySensorAvailable(channel_id) ==
    /\ last_update_success
    /\ data # None
    /\ CallFn(GetAttr(BinarySensorDescription(channel_id), BinarySensorClassAttrs,
                      "available_fn"), data, channel_id)

\* TwitchBinarySensorEntity.is_on
BinarySensorIsOn(channel_id) ==
    CallFn(GetAttr(BinarySensorDescription(channel_id), BinarySensorClassAttrs,
                   "value_fn"), data, channel_id)

\* TwitchBinarySensorEntity.entity_picture
BinarySensorEntityPicture(channel_id) ==
    CallFn(GetAttr(BinarySensorDescription(channel_id), BinarySensorClassAttrs,
                   "entity_picture_fn"), data, channel_id)

\* The keys of the sensor descriptions of sensor.py.
SensorKeys == {"game", "title", "followers", "followed_since", "views"}

\* The value_fn lambdas of the sensor descriptions.
SensorValueFn(key, channel) ==
    CASE key = "game" ->
            IF channel.stream # None THEN PyStr(channel.stream.game_name) ELSE None
      [] key = "title" ->
            IF channel.stream # None THEN PyStr(channel.stream.title) ELSE None
      [] key = "followers" -> channel.followers
      [] key = "followed_since" ->
            IF channel.following # None
            THEN PyStr(channel.following.followed_at) ELSE None
      [] key = "views" ->
            IF channel.stream # None THEN PyInt(channel.stream.viewer_count) ELSE None

\* The description async_setup_entry of sensor.py builds per channel and key.
SensorDescription(key, channel_id) ==
    DataclassInit(BaseDescriptionDefaults,
                  [available_fn |-> "get_twitch_channel_available",
                   entity_picture_fn |->
                       IF key = "game" THEN "get_twitch_game_entity_picture"
                       ELSE BaseDescriptionDefaults.entity_picture_fn,
                   key |-> channel_id \o "_" \o key,
                   value_fn |-> key])

\* TwitchSensorEntity.available
SensorAvailable(key, channel_id) ==
    /\ last_update_success
    /\ data # None
    /\ CallFn(SensorDescription(key, channel_id).available_fn, data, channel_id)

\* TwitchSensorEntity.native_value
SensorNativeValue(key, channel_id) ==
    LET channel == get_twitch_channel(data, channel_id)
    IN  IF channel = None
        THEN PyBool(FALSE)
        ELSE SensorValueFn(SensorDescription(key, channel_id).value_fn, channel)

Next ==
    \/ StartRefresh
    \/ ResolveUser
    \/ ResolveChannelUsers
    \/ \E i \in 1..(MaxChannels + 1) :
        \/ TaskStart(i)
        \/ LookupFollowers(i)
        \/ LookupFollowing(i)
        \/ LookupStream(i)
        \/ AwaitLookups(i)
        \/ LookupGame(i)
        \/ LookupSubscription(i)
    \/ GatherReturns
    \/ GatherRaises
    \/ Timeout

Spec == Init /\ [][Next]_vars

-----------------------------------------------------------------------------
(* Case-insensitive order of display names *)

\* str.lower on one character code.
Lower(c) == IF c \in 65..90 THEN c + 32 ELSE c

\* The sort key `name.lower()`.
LowerKey(name) == [i \in DOMAIN name |-> Lower(name[i])]

\* Python's <= on strings: lexicographic on the character codes.
StrLeq(a, b) ==
    LET diff == {i \in 1..Len(a) : i > Len(b) \/ a[i] # b[i]}
    IN  IF diff = {}
        THEN TRUE
        ELSE LET k == Min(diff) IN k <= Len(b) /\ a[k] < b[k]

SortedByDisplayName(channels) ==
    \A i, j \in DOMAIN channels :
        i < j => StrLeq(LowerKey(channels[i].display_name),
                        LowerKey(channels[j].display_name))

-----------------------------------------------------------------------------
(* Options flow (config_flow.py) *)

\* Longest channel selection a submitted form carries.
MaxSelected == 2

\* Most pages get_users_follows answers with before its pagination is empty.
MaxPages == 2

\* Ids the options flow meets: the ids above and a channel that may be
\* configured although the user follows it no longer.
FollowIds == ChannelIds \cup {"c2"}

\* TwitchUser(**self.config_entry.data["user"]): the user stored at setup.
StoredUser == TwitchUser(UserId)

\* A TwitchFollower record; the flow reads its to_id and to_name only.
TwitchFollower(to_id, to_name) ==
    [type |-> "TwitchFollower", to_id |-> to_id, to_name |-> to_name]

\* The data of a response, when present: a list of the ids followed.
PyList(s) == [type |-> "list", items |-> s]

\* The pagination of a response: missing, an empty dict, or a cursor.
EmptyDict == [type |-> "dict"]
Cursor == [type |-> "dict", cursor |-> "next"]

\* What get_users_follows(cursor, 100, user.id) may answer as page number n:
\* no data, or a list of at most one follow record of another channel; a
\* cursor to a further page only while fewer than MaxPages were delivered.
FollowPages(n) ==
    {[data |-> d, pagination |-> p] :
        d \in {None} \cup {PyList(s) : s \in SeqUpTo(FollowIds \ {UserId}, 1)},
        p \in {None, EmptyDict} \cup (IF n < MaxPages THEN {Cursor} ELSE {})}

\* `[TwitchFollower(**follower) for follower in followers_response.data]`
Followers(d) ==
    [i \in DOMAIN d.items |-> TwitchFollower(d.items[i], DisplayName(d.items[i]))]

\* One step of sorted(): x is placed behind the elements of the sorted list
\* s whose key is not greater (the sort is stable).
InsertByToName(s, x) ==
    LET n == Cardinality({i \in DOMAIN s :
                            StrLeq(LowerKey(s[i].to_name), LowerKey(x.to_name))})
    IN  SubSeq(s, 1, n) \o <<x>> \o SubSeq(s, n + 1, Len(s))

\* Lines 81-85: sorted(channels, key=lambda channel: channel.to_name.lower()).
RECURSIVE SortedByToName(_)
SortedByToName(channels) ==
    IF channels = <<>>
    THEN <<>>
    ELSE InsertByToName(SortedByToName(SubSeq(channels, 1, Len(channels) - 1)),
                        channels[Len(channels)])

\* Mutant of RemovedChannels: the loop of lines 276-278 is left out.
RemovedChannels_Ignored(configured_channels, channel_ids) == {}

\* Lines 276-278: the configured channels that are not in channel_ids.
RemovedChannels(configured_channels, channel_ids) ==
    {configured_channels[i] : i \in DOMAIN configured_channels} \ channel_ids

\* Lines 270-278: channels_dict, the choices of the multi_select: to_id ->
\* to_name of every channel of the list (a later record of the same id
\* overwrites an earlier one), and id -> id for each removed channel.
ChannelsDict(channels, configured_channels) ==
    LET channel_ids == {channels[i].to_id : i \in DOMAIN channels}
        last(k) == CHOOSE i \in DOMAIN channels :
                        /\ channels[i].to_id = k
                        /\ \A j \in DOMAIN channels : channels[j].to_id = k => j <= i
    IN  [k \in channel_ids \cup RemovedChannels(configured_channels, channel_ids) |->
            IF k \in channel_ids
            THEN [type |-> "str", chars |-> channels[last(k)].to_name]
            ELSE PyStr(k)]

\* Lines 280-290: async_show_form.
ShowForm(channels, configured_channels) ==
    [type |-> "form", step_id |-> "channels",
     choices |-> ChannelsDict(channels, configured_channels),
     default |-> configured_channels]

\* The except clauses of lines 263-268; any other exception leaves the step.
AbortReason(exc) ==
    IF IsInstance(exc, "TwitchAuthorizationException")
    THEN [type |-> "abort", reason |-> "invalid_auth"]
    ELSE IF \/ IsInstance(exc, "TwitchAPIException")
            \/ IsInstance(exc, "TwitchBackendException")
         THEN [type |-> "abort", reason |-> "cannot_connect"]
         ELSE [type |-> "raised", exc |-> exc]

\* Channel selections a user can submit: lists without repetition of keys of
\* the multi_select.
Selections(keys) ==
    {s \in SeqUpTo(keys, MaxSelected) : \A i, j \in DOMAIN s : i # j => s[i] # s[j]}

\* The state of the program outside the options flow.
coordinatorVars ==
    <<user, data, last_update_success, outcome, pc, channel_users, tasks,
      gatherExc, raised, userLookups, calls>>

\* An installed entry whose options flow has not been opened: the configured
\* channels are any selection made at setup or in an earlier options flow.
OptionsInit ==
    /\ options \in Selections(FollowIds)
    /\ user = None
    /\ data = None
    /\ last_update_success = TRUE
    /\ outcome = "none"
    /\ pc = "idle"
    /\ channel_users = <<>>
    /\ tasks = <<>>
    /\ gatherExc = NoException
    /\ raised = {}
    /\ userLookups = 0
    /\ calls = NoCalls
    /\ flow = IdleFlow

\* Lines 229-262 and 46-57: async_step_channels without user input, up to
\* the first iteration of the loop of get_followed_channels.
OptionsStepChannels ==
    /\ flow.pc = "idle"
    /\ flow' = [pc |-> "follows", cursor |-> None,
                channels |-> <<TwitchFollower(StoredUser.id, StoredUser.display_name)>>,
                pages |-> 0, followed |-> {}, result |-> None]
    /\ UNCHANGED <<options, coordinatorVars>>

\* Lines 58-85 and 263-290: one iteration of the loop of
\* get_followed_channels; when the pagination is empty the list is sorted and
\* the form is shown, and an exception of the client ends the step.
GetUsersFollows ==
    /\ flow.pc = "follows"
    /\ \/ \E page \in FollowPages(flow.pages + 1) :
            LET channels == IF page.data # None
                            THEN flow.channels \o Followers(page.data)
                            ELSE flow.channels
                followed == IF page.data # None
                            THEN flow.followed \cup
                                 {page.data.items[i] : i \in DOMAIN page.data.items}
                            ELSE flow.followed
            IN  IF page.pagination # None /\ page.pagination # EmptyDict
                THEN flow' = [flow EXCEPT !.cursor = page.pagination.cursor,
                                          !.channels = channels,
                                          !.followed = followed,
                                          !.pages = @ + 1]
                ELSE flow' = [pc |-> "form", cursor |-> None,
                              channels |-> SortedByToName(channels),
                              pages |-> flow.pages + 1, followed |-> followed,
                              result |-> ShowForm(SortedByToName(channels), options)]
       \/ \E e \in RemoteErrors :
            flow' = [flow EXCEPT !.pc = "idle", !.result = AbortReason(e)]
    /\ UNCHANGED <<options, coordinatorVars>>

\* Line 292: async_step_channels with user input; the host stores the data
\* of the created entry as the config entry's options.
SubmitForm ==
    /\ flow.pc = "form"
    /\ \E user_input \in Selections(DOMAIN flow.result.choices) :
        /\ user_input # <<>>
        /\ options' = user_input
        /\ flow' = [flow EXCEPT !.pc = "idle",
                                !.result = [type |-> "create_entry", data |-> user_input]]
    /\ UNCHANGED coordinatorVars

OptionsNext ==
    \/ OptionsStepChannels
    \/ GetUsersFollows
    \/ SubmitForm

OptionsSpec == OptionsInit /\ [][OptionsNext]_vars

-----------------------------------------------------------------------------
(* Properties *)

Published == pc = "idle" /\ outcome = "ok"

Present(d, channel_id) == \E i \in DOMAIN d.channels : d.channels[i].id = channel_id

\* C1: the channel sequence of every Snapshot a successful cycle returned is
\* sorted ascending by case-insensitive display name.
C1_SnapshotSortedByDisplayName ==
    data # None => SortedByDisplayName(data.channels)

\* C2: a not-found of the subscription lookup leaves the coroutine returning a
\* Channel with no subscription, and the cycle that returns publishes it so;
\* a cycle in which any other lookup error was raised never returns a
\* Snapshot and leaves the published data alone.
C2_OnlySubscriptionNotFoundIsSwallowed ==
    [][/\ \A i \in DOMAIN tasks' :
            tasks'[i].logged_not_subscribed
                => /\ tasks'[i].pc = "returned"
                   /\ ChannelOf(tasks'[i]).subscription = None
       /\ (pc = "gather" /\ pc' = "idle" /\ outcome' = "ok")
            => /\ raised' = {}
               /\ \A i \in DOMAIN tasks :
                    tasks[i].logged_not_subscribed
                        => data'.channels[i].subscription = None
       /\ (pc # "idle" /\ pc' = "idle" /\ raised' # {})
            => outcome' # "ok" /\ data' = data]_vars

\* C2 witness: a cycle succeeded although the subscription lookup of one of
\* its channels ended in not-found; that channel has no subscription.
C2_Witness ==
    /\ Published
    /\ \E i \in DOMAIN tasks :
        /\ tasks[i].logged_not_subscribed
        /\ data.channels[i].subscription = None

\* C3: a cycle in which the remote client raised an authorization error (and
\* which did not time out) ends as ConfigEntryAuthFailed.
C3_AuthorizationErrorEndsAsAuthFailed ==
    (/\ pc = "idle"
     /\ "TwitchAuthorizationException" \in raised
     /\ "TimeoutError" \notin raised)
        => outcome = "ConfigEntryAuthFailed"

\* C4 as stated: a cycle that timed out ends as UpdateFailed, the outcome of
\* a backend or API error.
C4_TimeoutEndsAsUpdateFailed ==
    (pc = "idle" /\ "TimeoutError" \in raised) => outcome = "UpdateFailed"

\* C4 amended: when the timeout expires, _async_update_data lets
\* asyncio.TimeoutError propagate (it is not turned into UpdateFailed), the
\* update is recorded as failed and the published Snapshot stays as it was.
C4_TimeoutPropagatesAndKeepsSnapshot ==
    [][("TimeoutError" \in raised' /\ "TimeoutError" \notin raised)
        => /\ outcome' = "TimeoutError"
           /\ ~last_update_success'
           /\ data' = data]_vars

\* C4 witness: a cycle timed out while a Snapshot of an earlier cycle is published.
C4_Witness ==
    /\ pc = "idle"
    /\ "TimeoutError" \in raised
    /\ outcome = "TimeoutError"
    /\ data # None

\* C5: after a successful cycle every entity, binary sensor and sensor alike,
\* is available exactly if its channel id is in the published Snapshot.
C5_AvailableIffChannelPresent ==
    Published =>
        \A id \in ChannelIds :
            /\ BinarySensorAvailable(id) = Present(data, id)
            /\ \A key \in SensorKeys : SensorAvailable(key, id) = Present(data, id)

\* C6: for a channel id that is not in the current Snapshot, is_on and the
\* native_value of every sensor are None.
C6_AbsentChannelResolvesToNone ==
    data # None =>
        \A id \in ChannelIds :
            ~Present(data, id)
                => /\ BinarySensorIsOn(id) = None
                   /\ \A key \in SensorKeys : SensorNativeValue(key, id) = None

\* C7: for a channel of the Snapshot without Stream the liveness sensor is
\* False and its picture is the channel's profile image; with a Stream the
\* liveness sensor is True.
C7_LivenessFollowsStream ==
    data # None =>
        \A i \in DOMAIN data.channels :
            LET channel == data.channels[i]
            IN  IF channel.stream = None
                THEN /\ BinarySensorIsOn(channel.id) = PyBool(FALSE)
                     /\ BinarySensorEntityPicture(channel.id) = channel.profile_image_url
                ELSE BinarySensorIsOn(channel.id) = PyBool(TRUE)

\* C8: the channel ids of a Snapshot are pairwise distinct.
C8_ChannelIdsUnique ==
    data # None =>
        \A i, j \in DOMAIN data.channels :
            data.channels[i].id = data.channels[j].id => i = j

\* C9: the published Snapshot changes only when a cycle returns, and then it
\* is that cycle's complete result: one Channel per resolved channel user, in
\* that order, each assembled by that cycle's own coroutine, and no error was
\* raised in the cycle.  A cycle that ends any other way publishes nothing.
C9_NoPartialSnapshot ==
    [][IF pc # "idle" /\ pc' = "idle" /\ outcome' = "ok"
       THEN /\ raised = {}
            /\ AllReturned(tasks)
            /\ Len(data'.channels) = Len(channel_users)
            /\ \A i \in DOMAIN channel_users :
                /\ data'.channels[i].id = channel_users[i].id
                /\ data'.channels[i] = ChannelOf(tasks[i])
            /\ data'.user = user
       ELSE data' = data]_vars

\* C9 witness: a cycle failed after one of its coroutines had returned its
\* Channel, and the Snapshot of an earlier cycle is still the published one.
C9_Witness ==
    /\ pc = "idle"
    /\ outcome \in {"UpdateFailed", "ConfigEntryAuthFailed", "TimeoutError"}
    /\ data # None
    /\ \E i \in DOMAIN tasks :
        /\ tasks[i].pc = "returned"
        /\ \A j \in DOMAIN data.channels : data.channels[j] # ChannelOf(tasks[i])

\* C10: once the user is cached it is never replaced, and no step issues the
\* user lookup again: neither _async_get_data nor a channel coroutine.
C10_UserFetchedOnce ==
    [][user # None => user' = user /\ userLookups' <= userLookups]_vars

\* C10 witness: in a cycle after a failed one, the cached user is in place, a
\* channel coroutine is past its user check, and no user lookup was issued.
C10_Witness ==
    /\ pc = "gather"
    /\ user # None
    /\ ~last_update_success
    /\ userLookups = 0
    /\ \E i \in DOMAIN tasks : tasks[i].pc # "start"

\* The backend/API-class errors and KeyError: every remote error but the
\* authorization error.
TransientErrors == RemoteErrors \ {"TwitchAuthorizationException"}

\* C11: a cycle in which a lookup raised a backend/API-class error or a
\* KeyError (and no authorization error, and which did not time out) ends as
\* UpdateFailed; and within one cycle the user lookup, the channel-list lookup
\* and each of the five lookups of every channel are issued at most once.
C11_TransientErrorFailsCycleWithoutRetry ==
    /\ (/\ pc = "idle"
        /\ raised \cap TransientErrors # {}
        /\ "TwitchAuthorizationException" \notin raised
        /\ "TimeoutError" \notin raised)
            => outcome = "UpdateFailed" /\ ~last_update_success
    /\ userLookups <= 1
    /\ calls.channel_list <= 1
    /\ \A i \in DOMAIN calls.per_task :
            \A k \in ChannelLookups : calls.per_task[i][k] <= 1

\* C11 witness: a cycle ended UpdateFailed after KeyError was raised by the
\* subscription lookup, the last lookup of a coroutine whose other lookups
\* were each issued once.
C11_Witness ==
    /\ pc = "idle"
    /\ outcome = "UpdateFailed"
    /\ raised = {"KeyError"}
    /\ calls.channel_list = 1
    /\ \E i \in DOMAIN tasks :
        /\ tasks[i].pc = "raised"
        /\ \A k \in ChannelLookups : calls.per_task[i][k] = 1

\* The Channel c is built only from lookup results of channel_user's own
\* channel: its identity from the get_users record, every other field from a
\* lookup made with channel_user.id (the game with that channel's stream).
BuiltFrom(c, channel_user) ==
    /\ c.id = channel_user.id
    /\ c.display_name = channel_user.display_name
    /\ c.profile_image_url = channel_user.profile_image_url
    /\ \E v \in RemoteFollowers(channel_user.id) : c.followers = PyInt(v.total)
    /\ \E v \in RemoteFollowing(channel_user.id) :
            c.following = IF Len(v.data) > 0 THEN v.data[1] ELSE None
    /\ c.stream \in RemoteStreams(channel_user.id)
    /\ c.game \in IF c.stream = None THEN {None} ELSE RemoteGames(c.stream.game_id)
    /\ c.subscription \in RemoteSubscriptions(channel_user.id) \cup {None}

\* C12: whatever the interleaving and the order of completion of the channel
\* coroutines, the Snapshot a cycle returns lists the channels in the order of
\* the resolved channel users, and the i-th Channel is the one the i-th
\* coroutine assembled, built only from its own channel's lookup results.
C12_SnapshotIndependentOfInterleaving ==
    Published =>
        /\ Len(data.channels) = Len(channel_users)
        /\ \A i \in DOMAIN data.channels :
            /\ data.channels[i] = ChannelOf(tasks[i])
            /\ BuiltFrom(data.channels[i], channel_users[i])

\* C12 witness: a Snapshot of two different channels was returned by a cycle
\* whose second coroutine completed before the first.
C12_Witness ==
    /\ Published
    /\ Len(tasks) = 2
    /\ channel_users[1].id # channel_users[2].id
    /\ tasks[1].completed = 2
    /\ tasks[2].completed = 1
    /\ data.channels[1].stream = None
    /\ data.channels[2].stream # None

\* C13: a step issues the game-metadata lookup of a coroutine only when that
\* coroutine's stream lookup has been issued and has found a stream; and in
\* every Channel a coroutine assembled, and every Channel of a published
\* Snapshot, a present Game implies a present Stream.
C13_GameOnlyAfterStreamFound ==
    /\ [][\A i \in DOMAIN calls.per_task \cap DOMAIN calls'.per_task :
            calls'.per_task[i]["game"] > calls.per_task[i]["game"]
                => /\ calls.per_task[i]["stream"] = 1
                   /\ tasks[i].stream \notin {Pending, None}]_vars
    /\ [](\A i \in DOMAIN tasks :
            (tasks[i].pc = "returned" /\ ChannelOf(tasks[i]).game # None)
                => ChannelOf(tasks[i]).stream # None)
    /\ [](data # None =>
            \A j \in DOMAIN data.channels :
                data.channels[j].game # None => data.channels[j].stream # None)

\* C13 witness: a published Snapshot with a Channel that has a Stream and a
\* Game, next to a Channel without Stream for which no game lookup was issued.
C13_Witness ==
    /\ Published
    /\ \E i, j \in DOMAIN data.channels :
        /\ data.channels[i].stream # None
        /\ data.channels[i].game # None
        /\ calls.per_task[i]["game"] = 1
        /\ data.channels[j].stream = None
        /\ data.channels[j].game = None
        /\ calls.per_task[j]["game"] = 0

\* C14: a step of _async_get_data in which the user, not resolved yet, is
\* looked up and the lookup yields no user ends the cycle as UpdateFailed
\* (not ConfigEntryAuthFailed) with no channel-list or per-channel lookup
\* issued and no coroutine created; and every cycle that starts without a
\* resolved user, the one after such a failure included, issues the user
\* lookup as its first step (unless the timeout expires first).
C14_NoUserFailsCycleAndIsLookedUpAgain ==
    /\ [][(/\ pc = "get_user"
           /\ user = None
           /\ user' = None
           /\ userLookups' = userLookups + 1
           /\ raised' = raised)
            => /\ outcome' = "UpdateFailed"
               /\ ~last_update_success'
               /\ pc' = "idle"
               /\ data' = data
               /\ calls' = NoCalls
               /\ tasks' = <<>>]_vars
    /\ [][(pc = "get_user" /\ user = None /\ "TimeoutError" \notin raised')
            => userLookups' = 1]_vars

\* C14 witness: a cycle has ended UpdateFailed because its user lookup
\* yielded no user; nothing else was looked up.
C14_Witness ==
    /\ pc = "idle"
    /\ outcome = "UpdateFailed"
    /\ user = None
    /\ raised = {}
    /\ userLookups = 1
    /\ calls = NoCalls

\* C15: in the form the options flow shows, every configured channel id is a
\* key of the choices; the keys are exactly the ids of the followed channels
\* the client delivered, the user's own id and the configured ids; and the
\* default selection is the configured list.
C15_FormOffersConfiguredChannels ==
    flow.pc = "form" =>
        LET configured == {options[i] : i \in DOMAIN options}
        IN  /\ flow.result.type = "form"
            /\ configured \subseteq DOMAIN flow.result.choices
            /\ DOMAIN flow.result.choices =
                    flow.followed \cup {StoredUser.id} \cup configured
            /\ flow.result.default = options

\* C15 witness: the form is shown while a configured channel is neither
\* followed nor the user's own, next to a followed channel that is not
\* configured.
C15_Witness ==
    /\ flow.pc = "form"
    /\ \E i \in DOMAIN options : options[i] \notin flow.followed \cup {StoredUser.id}
    /\ \E id \in flow.followed : \A i \in DOMAIN options : options[i] # id
    /\ flow.pages = 2

=============================================================================
